---- MODULE Spec2Model ----
(***************************************************************************)
(* A model of the nRF24L01 driver of src/src/lib.rs.                       *)
(*                                                                         *)
(* Every function of the driver is an operator that yields the function's  *)
(* body as a sequence of instructions; the actions below execute one       *)
(* instruction at a time on the driver state, the two digital lines, the   *)
(* bus and a mock chip.  Each hardware step (pin change, bus write, bus    *)
(* transfer) may succeed or fail; a failure is propagated as Rust's `?`    *)
(* propagates it, except where the source discards the Result.  An         *)
(* operation is a call followed by its steps, because it can end at any    *)
(* step that fails and send() need not return at all.                      *)
(***************************************************************************)
EXTENDS Integers, Sequences, FiniteSets, TLC

VARIABLES
    csn,              \* level of the chip-select line: "high" | "low"
    ce,               \* level of the chip-enable line: "high" | "low"
    channel,          \* NRF24L01.channel
    payload_size,     \* NRF24L01.payload_size
    tx_power_status,  \* NRF24L01.tx_power_status
    op,               \* the public operation running, or the last one that ran
    running,          \* TRUE while a public operation is executing
    todo,             \* the instructions the running operation has still to execute
    result,           \* what the last operation returned
    log,              \* the hardware steps of the current (or last) operation
    buffer,           \* the byte the last one-byte transfer read back
    payload_length,   \* get_data's local payload_length
    fifo_empty,       \* data_ready's local fifo_empty
    polls,            \* iterations of send's poll loop begun in this call
    entry,            \* the driver state when the operation was called
    regs,             \* mock chip: register -> bytes the driver last wrote to it
    prev,             \* the log of the operation before, if it was a config() without a fault
    fails,            \* hardware steps that have failed so far
    in_flight,        \* a packet was triggered by send() and no STATUS read showed it done
    chip_done         \* mock chip: a completion bit of STATUS is set and not written back

vars == <<csn, ce, channel, payload_size, tx_power_status, op, running, todo,
          result, log, buffer, payload_length, fifo_empty, polls, entry, regs,
          prev, fails, in_flight, chip_done>>

(***************************************************************************)
(* Bounds of the model.                                                    *)
(***************************************************************************)
\* Poll iterations of send() that the log records one by one; a longer wait
\* keeps the first MaxPolls - 1 iterations and the latest one.
MaxPolls == 2
\* Hardware steps (pin changes, bus writes, bus transfers) that fail in one run.
MaxFails == 1

(***************************************************************************)
(* The register map, bit positions and opcodes (mod constants).            *)
(***************************************************************************)
CONFIG == 0
RF_CH == 5
STATUS == 7
RX_ADDR_P0 == 10
RX_ADDR_P1 == 11
TX_ADDR == 16
RX_PW_P0 == 17
RX_PW_P1 == 18
FIFO_STATUS == 23
DYN_PD == 28
FEATURE == 29

PRIM_RX == 0
PWR_UP == 1
EN_CRC == 3
CRCO == 2
MAX_RT == 4
TX_DS == 5
RX_DR == 6
RX_EMPTY == 0
EN_DPL == 2
DPL_P0 == 0
DPL_P1 == 1

R_REGISTER == 0
W_REGISTER == 32
REGISTER_MASK == 31
R_RX_PL_WID == 96
R_RX_PAYLOAD == 97
W_TX_PAYLOAD == 160
FLUSH_TX == 225
FLUSH_RX == 226

(***************************************************************************)
(* u8 arithmetic.                                                          *)
(***************************************************************************)
RECURSIVE BitAnd(_, _)
BitAnd(a, b) ==
    IF a = 0 \/ b = 0 THEN 0
    ELSE (a % 2) * (b % 2) + 2 * BitAnd(a \div 2, b \div 2)

RECURSIVE BitOr(_, _)
BitOr(a, b) ==
    IF a = 0 THEN b
    ELSE IF b = 0 THEN a
    ELSE (IF a % 2 = 1 \/ b % 2 = 1 THEN 1 ELSE 0) + 2 * BitOr(a \div 2, b \div 2)

Shl(v, k) == (v * 2^k) % 256

MIRF_CONFIG == BitOr(Shl(1, EN_CRC), Shl(0, CRCO))

\* status & ((1 << TX_DS) | (1 << MAX_RT))
TxDoneMask == BitOr(Shl(1, TX_DS), Shl(1, MAX_RT))

(***************************************************************************)
(* Inputs.                                                                 *)
(***************************************************************************)
Channels == {76, 125}
PayloadSizes == {0, 32}
\* STATUS bytes the chip answers with: idle, TX_DS, MAX_RT, RX_DR
StatusBytes == {14, 46, 30, 78}
\* FIFO_STATUS bytes the chip answers with: RX_EMPTY | TX_EMPTY, TX_EMPTY
FifoBytes == {17, 16}
\* length bytes the chip answers R_RX_PL_WID with
WidthBytes == {0, 2, 33, 255}
Payloads == {<<>>, <<171, 205>>}
Addresses == {<<231, 231, 231>>, <<1, 2, 3, 4, 5>>}
BufLens == {0, 2, 32}
BusErrors == {"e1", "e2"}

(***************************************************************************)
(* Instructions.                                                           *)
(***************************************************************************)
ICsn(l) == [k |-> "csn", lvl |-> l]
ICe(l) == [k |-> "ce", lvl |-> l]
IWrite(bs) == [k |-> "write", bytes |-> bs]
ITransfer1 == [k |-> "transfer1"]
ITransferBuf(n) == [k |-> "transferbuf", buflen |-> n]
IFlag(b) == [k |-> "flag", b |-> b]
IIgnored(body) == [k |-> "ignored", body |-> body]
IEndIgnored == [k |-> "endignored"]
IIfTx(t) == [k |-> "iftx", then |-> t]
IIfMask(m, t, e) == [k |-> "ifmask", mask |-> m, then |-> t, else |-> e]
IWhileTx(body) == [k |-> "whiletx", body |-> body]
IBreak == [k |-> "break"]
ILenFixed == [k |-> "lenfixed"]
ILenBuffer == [k |-> "lenbuffer"]
IFifoEmpty(b) == [k |-> "fifoempty", b |-> b]
IRetUnit == [k |-> "ret", what |-> "unit", b |-> FALSE]
IRetBool(b) == [k |-> "ret", what |-> "bool", b |-> b]
IRetBuffer == [k |-> "ret", what |-> "buffer", b |-> FALSE]
IRetLen == [k |-> "ret", what |-> "len", b |-> FALSE]
IRetNotFifoEmpty == [k |-> "ret", what |-> "notfifo", b |-> FALSE]

(***************************************************************************)
(* The driver's functions.                                                 *)
(***************************************************************************)
using_dynamic_payload == payload_size = 0

config_register(register, value) ==
    << ICsn("low"),
       IWrite(<<BitOr(W_REGISTER, BitAnd(REGISTER_MASK, register))>>),
       IWrite(<<value>>),
       ICsn("high") >>

read_register(register) ==
    << ICsn("low"),
       IWrite(<<BitOr(R_REGISTER, BitAnd(REGISTER_MASK, register))>>),
       ITransfer1,
       ICsn("high") >>

write_register(register, value) ==
    << ICsn("low"),
       IWrite(<<BitOr(W_REGISTER, BitAnd(REGISTER_MASK, register))>>),
       IWrite(value),
       ICsn("high") >>

power_up_rx ==
    << IFlag(FALSE), ICe("low") >>
    \o config_register(CONFIG, BitOr(MIRF_CONFIG, BitOr(Shl(1, PWR_UP), Shl(1, PRIM_RX))))
    \o << ICe("high") >>
    \o config_register(STATUS, BitOr(Shl(1, TX_DS), Shl(1, MAX_RT)))

\* power_up_tx() that does not set the flag (a mutant of power_up_tx)
power_up_tx_no_flag ==
    config_register(CONFIG, BitOr(MIRF_CONFIG, BitOr(Shl(1, PWR_UP), Shl(0, PRIM_RX))))

power_up_tx ==
    << IFlag(TRUE) >>
    \o config_register(CONFIG, BitOr(MIRF_CONFIG, BitOr(Shl(1, PWR_UP), Shl(0, PRIM_RX))))

flush_rx == << ICsn("low"), IWrite(<<FLUSH_RX>>), ICsn("high") >>

get_status == read_register(STATUS)

rx_fifo_empty ==
    read_register(FIFO_STATUS)
    \o << IIfMask(Shl(1, RX_EMPTY), <<IFifoEmpty(TRUE)>>, <<IFifoEmpty(FALSE)>>) >>

\* config() flushing the receive FIFO before it powers up (a mutant of config)
config_flush_first ==
    config_register(RF_CH, channel)
    \o (IF using_dynamic_payload
        THEN << IIgnored(config_register(FEATURE, Shl(1, EN_DPL))),
                IIgnored(config_register(DYN_PD, BitOr(Shl(1, DPL_P0), Shl(1, DPL_P1)))) >>
        ELSE config_register(RX_PW_P0, payload_size)
             \o config_register(RX_PW_P1, payload_size))
    \o flush_rx
    \o power_up_rx
    \o << IRetUnit >>

\* config() powering up the receiver only when a transmission is in flight (a
\* mutant of config)
config_rx_if_sending ==
    config_register(RF_CH, channel)
    \o (IF using_dynamic_payload
        THEN << IIgnored(config_register(FEATURE, Shl(1, EN_DPL))),
                IIgnored(config_register(DYN_PD, BitOr(Shl(1, DPL_P0), Shl(1, DPL_P1)))) >>
        ELSE config_register(RX_PW_P0, payload_size)
             \o config_register(RX_PW_P1, payload_size))
    \o << IIfTx(power_up_rx) >>
    \o flush_rx
    \o << IRetUnit >>

config ==
    config_register(RF_CH, channel)
    \o (IF using_dynamic_payload
        THEN << IIgnored(config_register(FEATURE, Shl(1, EN_DPL))),
                IIgnored(config_register(DYN_PD, BitOr(Shl(1, DPL_P0), Shl(1, DPL_P1)))) >>
        ELSE config_register(RX_PW_P0, payload_size)
             \o config_register(RX_PW_P1, payload_size))
    \o power_up_rx
    \o flush_rx
    \o << IRetUnit >>

power_down ==
    << ICe("low") >> \o config_register(CONFIG, MIRF_CONFIG) \o << IRetUnit >>

\* set_raddr() that leaves chip-enable low (a mutant of set_raddr)
set_raddr_ce_low(addr) ==
    << ICe("low") >> \o write_register(RX_ADDR_P1, addr) \o << IRetUnit >>

set_raddr(addr) ==
    << ICe("low") >> \o write_register(RX_ADDR_P1, addr) \o << ICe("high"), IRetUnit >>

set_taddr(addr) ==
    write_register(RX_ADDR_P0, addr) \o write_register(TX_ADDR, addr) \o << IRetUnit >>

get_status_op == get_status \o << IRetBuffer >>

\* send() leaving its poll loop after one read, whatever it shows (a mutant of send)
send_poll_once(data) ==
    get_status
    \o << IWhileTx(get_status \o << IFlag(FALSE), IBreak >>) >>
    \o << ICe("low") >>
    \o power_up_tx
    \o << ICsn("low"), IWrite(<<FLUSH_TX>>), ICsn("high") >>
    \o << ICsn("low"), IWrite(<<W_TX_PAYLOAD>>), IWrite(data), ICsn("high") >>
    \o << ICe("high"), IRetUnit >>

\* send() whose poll loop looks at TX_DS alone (a mutant of send)
send_poll_tx_ds_only(data) ==
    get_status
    \o << IWhileTx(get_status
                   \o << IIfMask(Shl(1, TX_DS), <<IFlag(FALSE), IBreak>>, <<>>) >>) >>
    \o << ICe("low") >>
    \o power_up_tx
    \o << ICsn("low"), IWrite(<<FLUSH_TX>>), ICsn("high") >>
    \o << ICsn("low"), IWrite(<<W_TX_PAYLOAD>>), IWrite(data), ICsn("high") >>
    \o << ICe("high"), IRetUnit >>

\* send() raising chip-enable before it loads the payload (a mutant of send)
send_trigger_first(data) ==
    get_status
    \o << IWhileTx(get_status \o << IIfMask(TxDoneMask, <<IFlag(FALSE), IBreak>>, <<>>) >>) >>
    \o << ICe("low") >>
    \o power_up_tx
    \o << ICsn("low"), IWrite(<<FLUSH_TX>>), ICsn("high") >>
    \o << ICe("high") >>
    \o << ICsn("low"), IWrite(<<W_TX_PAYLOAD>>), IWrite(data), ICsn("high") >>
    \o << IRetUnit >>

send(data) ==
    get_status
    \o << IWhileTx(get_status \o << IIfMask(TxDoneMask, <<IFlag(FALSE), IBreak>>, <<>>) >>) >>
    \o << ICe("low") >>
    \o power_up_tx
    \o << ICsn("low"), IWrite(<<FLUSH_TX>>), ICsn("high") >>
    \o << ICsn("low"), IWrite(<<W_TX_PAYLOAD>>), IWrite(data), ICsn("high") >>
    \o << ICe("high"), IRetUnit >>

\* is_sending() reading STATUS whatever the flag (a mutant of is_sending)
is_sending_always_reads ==
    get_status
    \o << IIfMask(TxDoneMask, power_up_rx \o <<IRetBool(FALSE)>>, <<>>),
          IRetBool(tx_power_status) >>

\* is_sending() looking at TX_DS alone (a mutant of is_sending)
is_sending_tx_ds_only ==
    << IIfTx(get_status
             \o << IIfMask(Shl(1, TX_DS), power_up_rx \o <<IRetBool(FALSE)>>, <<>>),
                   IRetBool(TRUE) >>),
       IRetBool(FALSE) >>

\* is_sending() reporting completion without powering up the receiver (a mutant
\* of is_sending)
is_sending_stays_tx ==
    << IIfTx(get_status
             \o << IIfMask(TxDoneMask, <<IRetBool(FALSE)>>, <<>>),
                   IRetBool(TRUE) >>),
       IRetBool(FALSE) >>

is_sending ==
    << IIfTx(get_status
             \o << IIfMask(TxDoneMask, power_up_rx \o <<IRetBool(FALSE)>>, <<>>),
                   IRetBool(TRUE) >>),
       IRetBool(FALSE) >>

\* data_ready() looking at RX_DR alone (a mutant of data_ready)
data_ready_status_only ==
    get_status
    \o << IIfMask(Shl(1, RX_DR), <<IRetBool(TRUE)>>, <<>>) >>
    \o << IRetBool(FALSE) >>

data_ready ==
    get_status
    \o << IIfMask(Shl(1, RX_DR), <<IRetBool(TRUE)>>, <<>>) >>
    \o rx_fifo_empty
    \o << IRetNotFifoEmpty >>

\* get_data() acknowledging RX_DR before it reads the payload (a mutant of get_data)
get_data_ack_first(buflen) ==
    << ILenFixed >>
    \o (IF using_dynamic_payload
        THEN << ICsn("low"), IWrite(<<R_RX_PL_WID>>), ITransfer1, ICsn("high"), ILenBuffer >>
        ELSE << >>)
    \o config_register(STATUS, Shl(1, RX_DR))
    \o << ICsn("low"), IWrite(<<R_RX_PAYLOAD>>), ITransferBuf(buflen), ICsn("high") >>
    \o << IRetLen >>

get_data(buflen) ==
    << ILenFixed >>
    \o (IF using_dynamic_payload
        THEN << ICsn("low"), IWrite(<<R_RX_PL_WID>>), ITransfer1, ICsn("high"), ILenBuffer >>
        ELSE << >>)
    \o << ICsn("low"), IWrite(<<R_RX_PAYLOAD>>), ITransferBuf(buflen), ICsn("high") >>
    \o config_register(STATUS, Shl(1, RX_DR))
    \o << IRetLen >>

(***************************************************************************)
(* Results and logged hardware steps.                                      *)
(***************************************************************************)
NoResult == [tag |-> "None", err |-> "-", e |-> "-", b |-> FALSE, n |-> 0]
OkUnit == [tag |-> "Ok", err |-> "-", e |-> "-", b |-> FALSE, n |-> 0]
OkBool(b) == [tag |-> "Ok", err |-> "-", e |-> "-", b |-> b, n |-> 0]
OkByte(n) == [tag |-> "Ok", err |-> "-", e |-> "-", b |-> FALSE, n |-> n]
\* Error::Gpio, from map_err(|_| Error::Gpio)
ErrGpio == [tag |-> "Err", err |-> "Gpio", e |-> "-", b |-> FALSE, n |-> 0]
\* Error::Spi(e), from impl From<E> for Error<E>
ErrSpi(e) == [tag |-> "Err", err |-> "Spi", e |-> e, b |-> FALSE, n |-> 0]
\* buf[0..payload_length] with payload_length > buf.len() panics
Panicked == [tag |-> "Panic", err |-> "-", e |-> "-", b |-> FALSE, n |-> 0]

\* One hardware step: what it was and how it ended ("ok", or the bus error, or
\* "fail" for a pin).
Ev(kind, lvl, bytes, n, v, st) ==
    [k |-> kind, lvl |-> lvl, bytes |-> bytes, n |-> n, v |-> v, st |-> st]

Rest == Tail(todo)
At(kind) == running /\ Len(todo) > 0 /\ Head(todo).k = kind

\* The position of the first instruction of kind `kind` in s, or 0.
FirstOf(s, kind) ==
    IF \E i \in 1..Len(s) : s[i].k = kind
    THEN CHOOSE i \in 1..Len(s) : s[i].k = kind /\ \A j \in 1..(i-1) : s[j].k # kind
    ELSE 0

\* `?` on an Err: the error leaves the enclosing function; it ends the operation
\* unless the caller discards the Result, and then the caller carries on.
Propagate(err) ==
    LET i == FirstOf(Rest, "endignored") IN
    IF i > 0
    THEN /\ todo' = SubSeq(Rest, i + 1, Len(Rest))
         /\ UNCHANGED <<running, result>>
    ELSE /\ todo' = <<>>
         /\ running' = FALSE
         /\ result' = err

Continue == todo' = Rest /\ UNCHANGED <<running, result, fails>>

\* A hardware step fails.
Fault == fails < MaxFails /\ fails' = fails + 1

\* The registers whose content the mock chip keeps.
TrackedRegs == {CONFIG}

IsWriteRegister(opcode) == opcode >= W_REGISTER /\ opcode < W_REGISTER + REGISTER_MASK + 1

\* Mock chip: bytes written right after a W_REGISTER opcode are stored in that
\* register.
ChipReceives(bytes) ==
    LET last == IF Len(log) > 0 THEN log[Len(log)] ELSE Ev("-", "-", <<>>, 0, 0, "-")
        isreg == /\ last.k = "write" /\ last.st = "ok" /\ Len(last.bytes) = 1
                 /\ IsWriteRegister(last.bytes[1])
        r == IF isreg THEN BitAnd(REGISTER_MASK, last.bytes[1]) ELSE 0
    IN regs' = IF isreg /\ r \in TrackedRegs THEN [regs EXCEPT ![r] = bytes] ELSE regs

NoPrev ==
    [config |-> FALSE, log |-> <<>>, tx0 |-> FALSE, csn |-> "high", ce |-> "low",
     tx |-> FALSE, regs |-> [r \in TrackedRegs |-> <<>>],
     channel |-> 0, payload_size |-> 0]

(***************************************************************************)
(* Construction: the state after new() returned Ok.                        *)
(***************************************************************************)
Init ==
    /\ channel \in Channels
    /\ payload_size \in PayloadSizes
    /\ tx_power_status = FALSE
    /\ ce = "low"
    /\ csn = "high"
    /\ op = "new"
    /\ running = FALSE
    /\ todo = <<>>
    /\ result = OkUnit
    /\ log = <<>>
    /\ buffer = 0
    /\ payload_length = 0
    /\ fifo_empty = FALSE
    /\ polls = 0
    /\ entry = [csn |-> "high", ce |-> "low", tx |-> FALSE, data |-> <<>>, buflen |-> 0]
    /\ regs = [r \in TrackedRegs |-> <<>>]
    /\ prev = NoPrev
    /\ fails = 0
    /\ in_flight = FALSE
    /\ chip_done = FALSE

(***************************************************************************)
(* Calls of the public operations.                                         *)
(***************************************************************************)
\* No operation is running and the program has not panicked.
Idle == ~running /\ result.tag # "Panic"

Call(name, program, data, buflen) ==
    /\ op' = name
    /\ running' = TRUE
    /\ todo' = program
    /\ result' = NoResult
    /\ log' = <<>>
    /\ polls' = 0
    /\ entry' = [csn |-> csn, ce |-> ce, tx |-> tx_power_status,
                 data |-> data, buflen |-> buflen]
    /\ buffer' = 0
    /\ payload_length' = 0
    /\ fifo_empty' = FALSE
    /\ prev' = IF op = "config" /\ result.tag = "Ok" /\ \A i \in 1..Len(log) : log[i].st = "ok"
                THEN [config |-> TRUE, log |-> log, tx0 |-> entry.tx, csn |-> csn, ce |-> ce,
                      tx |-> tx_power_status, regs |-> regs,
                      channel |-> channel, payload_size |-> payload_size]
                ELSE NoPrev
    /\ UNCHANGED <<csn, ce, channel, payload_size, tx_power_status, regs, fails>>
    /\ UNCHANGED <<in_flight, chip_done>>

CallConfig == Idle /\ Call("config", config, <<>>, 0)
CallPowerDown == Idle /\ Call("power_down", power_down, <<>>, 0)
CallSetRaddr == Idle /\ \E addr \in Addresses : Call("set_raddr", set_raddr(addr), addr, 0)
CallSetTaddr == Idle /\ \E addr \in Addresses : Call("set_taddr", set_taddr(addr), addr, 0)
CallGetStatus == Idle /\ Call("get_status", get_status_op, <<>>, 0)
CallSend == Idle /\ \E data \in Payloads : Call("send", send(data), data, 0)
CallIsSending == Idle /\ Call("is_sending", is_sending, <<>>, 0)
CallDataReady == Idle /\ Call("data_ready", data_ready, <<>>, 0)
CallGetData == Idle /\ \E n \in BufLens : Call("get_data", get_data(n), <<>>, n)

(***************************************************************************)
(* Hardware steps.                                                         *)
(***************************************************************************)
Soft == <<channel, payload_size, op, entry, prev, polls>>

\* The packet on the air and the completion bits of the chip.
Air == <<in_flight, chip_done>>

\* The driver has just written the opcode that reads STATUS.
ReadingStatus ==
    /\ Len(log) > 0
    /\ log[Len(log)] = Ev("write", "-", <<BitOr(R_REGISTER, STATUS)>>, 1, 0, "ok")

\* The driver has just written the opcode that writes STATUS.
WritingStatus ==
    /\ Len(log) > 0
    /\ log[Len(log)] = Ev("write", "-", <<BitOr(W_REGISTER, STATUS)>>, 1, 0, "ok")

\* ce.set_high() at the end of send(): the packet loaded into the TX FIFO goes
\* on the air.
Triggers(l) ==
    /\ in_flight' = IF op = "send" /\ l = "high" THEN TRUE ELSE in_flight
    /\ UNCHANGED chip_done

\* Mock chip: TX_DS and MAX_RT stay set in STATUS from the completion of a
\* packet until the driver writes them back (write-1-to-clear).  A STATUS read
\* that shows one of them ends the flight of the packet.
StatusShows(v) ==
    LET done == ReadingStatus /\ BitAnd(v, TxDoneMask) # 0
    IN /\ in_flight' = IF done THEN FALSE ELSE in_flight
       /\ chip_done' = IF done /\ in_flight THEN TRUE ELSE chip_done

StatusCleared(bytes) ==
    /\ chip_done' = IF WritingStatus /\ Len(bytes) = 1 /\ BitAnd(bytes[1], TxDoneMask) = TxDoneMask
                    THEN FALSE ELSE chip_done
    /\ UNCHANGED in_flight

\* csn.set_low() / csn.set_high(), .map_err(|_| Error::Gpio)?
StepCsn ==
    /\ At("csn")
    /\ LET l == Head(todo).lvl IN
       \/ /\ csn' = l
          /\ log' = Append(log, Ev("csn", l, <<>>, 0, 0, "ok"))
          /\ Continue
       \/ /\ Fault
          /\ log' = Append(log, Ev("csn", l, <<>>, 0, 0, "fail"))
          /\ Propagate(ErrGpio)
          /\ UNCHANGED csn
    /\ UNCHANGED <<ce, tx_power_status, buffer, payload_length, fifo_empty, regs>>
    /\ UNCHANGED Soft
    /\ UNCHANGED Air

\* ce.set_low() / ce.set_high(), .map_err(|_| Error::Gpio)?
StepCe ==
    /\ At("ce")
    /\ LET l == Head(todo).lvl IN
       \/ /\ ce' = l
          /\ log' = Append(log, Ev("ce", l, <<>>, 0, 0, "ok"))
          /\ Triggers(l)
          /\ Continue
       \/ /\ Fault
          /\ log' = Append(log, Ev("ce", l, <<>>, 0, 0, "fail"))
          /\ Propagate(ErrGpio)
          /\ UNCHANGED <<ce, in_flight, chip_done>>
    /\ UNCHANGED <<csn, tx_power_status, buffer, payload_length, fifo_empty, regs>>
    /\ UNCHANGED Soft

\* spi.write(bytes)?
StepWrite ==
    /\ At("write")
    /\ LET bs == Head(todo).bytes IN
       \/ /\ log' = Append(log, Ev("write", "-", bs, Len(bs), 0, "ok"))
          /\ ChipReceives(bs)
          /\ StatusCleared(bs)
          /\ Continue
       \/ \E e \in BusErrors :
          /\ Fault
          /\ log' = Append(log, Ev("write", "-", bs, Len(bs), 0, e))
          /\ Propagate(ErrSpi(e))
          /\ UNCHANGED <<regs, in_flight, chip_done>>
    /\ UNCHANGED <<csn, ce, tx_power_status, buffer, payload_length, fifo_empty>>
    /\ UNCHANGED Soft

\* Mock chip: the byte it answers a one-byte transfer with, by the opcode the
\* driver wrote just before.
ChipAnswers ==
    LET opcode == IF Len(log) > 0 /\ Len(log[Len(log)].bytes) > 0
                  THEN log[Len(log)].bytes[1] ELSE 0
    IN IF opcode = R_RX_PL_WID THEN WidthBytes
       ELSE IF opcode = BitOr(R_REGISTER, FIFO_STATUS) THEN FifoBytes
       ELSE StatusBytes

\* let mut buffer = [0]; spi.transfer(&mut buffer)?
StepTransfer1 ==
    /\ At("transfer1")
    /\ \/ \E v \in ChipAnswers :
          /\ buffer' = v
          /\ log' = Append(log, Ev("transfer", "-", <<0>>, 1, v, "ok"))
          /\ StatusShows(v)
          /\ Continue
       \/ \E e \in BusErrors :
          /\ Fault
          /\ log' = Append(log, Ev("transfer", "-", <<0>>, 1, 0, e))
          /\ Propagate(ErrSpi(e))
          /\ UNCHANGED <<buffer, in_flight, chip_done>>
    /\ UNCHANGED <<csn, ce, tx_power_status, payload_length, fifo_empty, regs>>
    /\ UNCHANGED Soft

\* spi.transfer(&mut buf[0..(payload_length as usize)])?
\* The payload transfer cutting the length to the buffer instead of failing (a
\* mutant of StepTransferBuf)
StepTransferBufClamped ==
    /\ At("transferbuf")
    /\ LET n == IF payload_length > Head(todo).buflen THEN Head(todo).buflen
                ELSE payload_length
       IN \/ /\ log' = Append(log, Ev("transfer", "-", <<>>, n, 0, "ok"))
             /\ Continue
          \/ \E e \in BusErrors :
             /\ Fault
             /\ log' = Append(log, Ev("transfer", "-", <<>>, n, 0, e))
             /\ Propagate(ErrSpi(e))
    /\ UNCHANGED <<csn, ce, tx_power_status, buffer, payload_length, fifo_empty, regs>>
    /\ UNCHANGED Soft
    /\ UNCHANGED Air

StepTransferBuf ==
    /\ At("transferbuf")
    /\ \/ /\ payload_length > Head(todo).buflen
          /\ todo' = <<>>
          /\ running' = FALSE
          /\ result' = Panicked
          /\ UNCHANGED <<log, fails>>
       \/ /\ payload_length <= Head(todo).buflen
          /\ log' = Append(log, Ev("transfer", "-", <<>>, payload_length, 0, "ok"))
          /\ Continue
       \/ \E e \in BusErrors :
          /\ payload_length <= Head(todo).buflen
          /\ Fault
          /\ log' = Append(log, Ev("transfer", "-", <<>>, payload_length, 0, e))
          /\ Propagate(ErrSpi(e))
    /\ UNCHANGED <<csn, ce, tx_power_status, buffer, payload_length, fifo_empty, regs>>
    /\ UNCHANGED Soft
    /\ UNCHANGED Air

(***************************************************************************)
(* Steps of the driver's own control flow.                                 *)
(***************************************************************************)
Hard == <<csn, ce, regs>>

\* self.tx_power_status = true / false
StepFlag ==
    /\ At("flag")
    /\ tx_power_status' = Head(todo).b
    /\ Continue
    /\ UNCHANGED <<log, buffer, payload_length, fifo_empty>>
    /\ UNCHANGED Hard
    /\ UNCHANGED Soft
    /\ UNCHANGED Air

\* A call whose Result is discarded: self.config_register(..); without `?`
StepIgnored ==
    /\ At("ignored")
    /\ todo' = Head(todo).body \o <<IEndIgnored>> \o Rest
    /\ UNCHANGED <<running, result, fails, log, tx_power_status, buffer, payload_length,
                   fifo_empty>>
    /\ UNCHANGED Hard
    /\ UNCHANGED Soft
    /\ UNCHANGED Air

StepEndIgnored ==
    /\ At("endignored")
    /\ Continue
    /\ UNCHANGED <<log, tx_power_status, buffer, payload_length, fifo_empty>>
    /\ UNCHANGED Hard
    /\ UNCHANGED Soft
    /\ UNCHANGED Air

\* if self.tx_power_status { .. }
StepIfTx ==
    /\ At("iftx")
    /\ todo' = (IF tx_power_status THEN Head(todo).then ELSE <<>>) \o Rest
    /\ UNCHANGED <<running, result, fails, log, tx_power_status, buffer, payload_length,
                   fifo_empty>>
    /\ UNCHANGED Hard
    /\ UNCHANGED Soft
    /\ UNCHANGED Air

\* if (value & mask) != 0 { .. } else { .. } on the byte just read
StepIfMask ==
    /\ At("ifmask")
    /\ todo' = (IF BitAnd(buffer, Head(todo).mask) # 0
                THEN Head(todo).then ELSE Head(todo).else) \o Rest
    /\ UNCHANGED <<running, result, fails, log, tx_power_status, buffer, payload_length,
                   fifo_empty>>
    /\ UNCHANGED Hard
    /\ UNCHANGED Soft
    /\ UNCHANGED Air

\* The hardware steps of one poll iteration (get_status).
PollSteps == Len(get_status)

\* while self.tx_power_status { .. }
StepWhileTx ==
    /\ At("whiletx")
    /\ IF tx_power_status
       THEN /\ todo' = Head(todo).body \o todo
            /\ IF polls < MaxPolls
               THEN polls' = polls + 1 /\ UNCHANGED log
               ELSE /\ log' = SubSeq(log, 1, Len(log) - PollSteps)
                    /\ UNCHANGED polls
       ELSE /\ todo' = Rest
            /\ UNCHANGED <<log, polls>>
    /\ UNCHANGED <<running, result, fails, tx_power_status, buffer, payload_length,
                   fifo_empty>>
    /\ UNCHANGED Hard
    /\ UNCHANGED <<channel, payload_size, op, entry, prev>>
    /\ UNCHANGED Air

\* break: leave the enclosing while
StepBreak ==
    /\ At("break")
    /\ todo' = SubSeq(Rest, FirstOf(Rest, "whiletx") + 1, Len(Rest))
    /\ UNCHANGED <<running, result, fails, log, tx_power_status, buffer, payload_length,
                   fifo_empty>>
    /\ UNCHANGED Hard
    /\ UNCHANGED Soft
    /\ UNCHANGED Air

\* let mut payload_length = self.payload_size
StepLenFixed ==
    /\ At("lenfixed")
    /\ payload_length' = payload_size
    /\ Continue
    /\ UNCHANGED <<log, tx_power_status, buffer, fifo_empty>>
    /\ UNCHANGED Hard
    /\ UNCHANGED Soft
    /\ UNCHANGED Air

\* payload_length = buffer[0]
StepLenBuffer ==
    /\ At("lenbuffer")
    /\ payload_length' = buffer
    /\ Continue
    /\ UNCHANGED <<log, tx_power_status, buffer, fifo_empty>>
    /\ UNCHANGED Hard
    /\ UNCHANGED Soft
    /\ UNCHANGED Air

\* rx_fifo_empty's return Ok(true) / Ok(false), bound to fifo_empty by the caller
StepFifoEmpty ==
    /\ At("fifoempty")
    /\ fifo_empty' = Head(todo).b
    /\ Continue
    /\ UNCHANGED <<log, tx_power_status, buffer, payload_length>>
    /\ UNCHANGED Hard
    /\ UNCHANGED Soft
    /\ UNCHANGED Air

\* return Ok(..) of a public operation
StepRet ==
    /\ At("ret")
    /\ todo' = <<>>
    /\ running' = FALSE
    /\ result' = CASE Head(todo).what = "unit" -> OkUnit
                   [] Head(todo).what = "bool" -> OkBool(Head(todo).b)
                   [] Head(todo).what = "buffer" -> OkByte(buffer)
                   [] Head(todo).what = "len" -> OkByte(payload_length)
                   [] Head(todo).what = "notfifo" -> OkBool(~fifo_empty)
    /\ UNCHANGED <<log, tx_power_status, buffer, payload_length, fifo_empty>>
    /\ UNCHANGED Hard
    /\ UNCHANGED <<channel, payload_size, op, entry, prev, polls, fails>>
    /\ UNCHANGED Air

Next ==
    \/ CallConfig
    \/ CallPowerDown
    \/ CallSetRaddr
    \/ CallSetTaddr
    \/ CallGetStatus
    \/ CallSend
    \/ CallIsSending
    \/ CallDataReady
    \/ CallGetData
    \/ StepCsn
    \/ StepCe
    \/ StepWrite
    \/ StepTransfer1
    \/ StepTransferBuf
    \/ StepFlag
    \/ StepIgnored
    \/ StepEndIgnored
    \/ StepIfTx
    \/ StepIfMask
    \/ StepWhileTx
    \/ StepBreak
    \/ StepLenFixed
    \/ StepLenBuffer
    \/ StepFifoEmpty
    \/ StepRet

Spec == Init /\ [][Next]_vars

\* The steps of the running operation: the processor executes the next one.
Steps ==
    \/ StepCsn \/ StepCe \/ StepWrite \/ StepTransfer1 \/ StepTransferBuf
    \/ StepFlag \/ StepIgnored \/ StepEndIgnored \/ StepIfTx \/ StepIfMask
    \/ StepWhileTx \/ StepBreak \/ StepLenFixed \/ StepLenBuffer \/ StepFifoEmpty
    \/ StepRet

\* A running operation keeps executing; what the chip answers is not constrained.
FairSpec == Spec /\ WF_vars(Steps)

(***************************************************************************)
(* Vocabulary of the properties: the hardware steps an operation logged.   *)
(***************************************************************************)
Returned(name) == ~running /\ op = name /\ result.tag \in {"Ok", "Err"}
ReturnedOk(name) == ~running /\ op = name /\ result.tag = "Ok"
AllOk(l) == \A i \in 1..Len(l) : l[i].st = "ok"

EvCsn(l) == Ev("csn", l, <<>>, 0, 0, "ok")
EvCe(l) == Ev("ce", l, <<>>, 0, 0, "ok")
EvWrite(bs) == Ev("write", "-", bs, Len(bs), 0, "ok")
EvRead1(v) == Ev("transfer", "-", <<0>>, 1, v, "ok")
EvReadN(n) == Ev("transfer", "-", <<>>, n, 0, "ok")

\* One chip-select frame: W_REGISTER of `bytes` to register r, R_REGISTER of r
\* answering v, a command without data.
WriteFrame(r, bytes) ==
    << EvCsn("low"), EvWrite(<<W_REGISTER + r>>), EvWrite(bytes), EvCsn("high") >>
ReadFrame(r, v) ==
    << EvCsn("low"), EvWrite(<<R_REGISTER + r>>), EvRead1(v), EvCsn("high") >>
CommandFrame(opcode) == << EvCsn("low"), EvWrite(<<opcode>>), EvCsn("high") >>

\* The level of a line before step i of the log: what the last successful
\* change before i left, or the level at the call.
RECURSIVE LevelBefore(_, _, _)
LevelBefore(line, i, atCall) ==
    IF i <= 1 THEN atCall
    ELSE IF log[i-1].k = line /\ log[i-1].st = "ok" THEN log[i-1].lvl
    ELSE LevelBefore(line, i - 1, atCall)
CsnBefore(i) == LevelBefore("csn", i, entry.csn)
CeBefore(i) == LevelBefore("ce", i, entry.ce)

HasDoneBit(v) == (v \div 2^TX_DS) % 2 = 1 \/ (v \div 2^MAX_RT) % 2 = 1

(***************************************************************************)
(* C1: chip-select is high whenever a public operation has returned, with  *)
(* Ok or with an error.                                                    *)
(* The code returns through `?` between csn.set_low() and csn.set_high(),  *)
(* so a failed bus step leaves chip-select low.                            *)
(***************************************************************************)
C1_CsnHighAtReturn ==
    (~running /\ result.tag \in {"Ok", "Err"}) => csn = "high"

(***************************************************************************)
(* C2: every bus write or transfer happens while chip-select is low;       *)
(* chip-select is never driven low while it is already low; and in runs    *)
(* without a failed step every chip-select low period holds exactly one    *)
(* opcode followed by that instruction's data.                             *)
(***************************************************************************)
C2_BusWhileLow ==
    \A i \in 1..Len(log) :
        log[i].k \in {"write", "transfer"} => CsnBefore(i) = "low"

C2_NeverLowTwice ==
    \A i \in 1..Len(log) :
        (log[i].k = "csn" /\ log[i].lvl = "low") => CsnBefore(i) = "high"

\* The steps of the log between a chip-select low at i and the next chip-select step.
FrameBody(i) ==
    LET ends == {j \in (i+1)..Len(log) : log[j].k = "csn"}
        j == IF ends = {} THEN Len(log) + 1
             ELSE CHOOSE x \in ends : \A y \in ends : x <= y
    IN SubSeq(log, i + 1, j - 1)

\* One opcode, then that instruction's data.
WellFormedFrame(body) ==
    /\ Len(body) >= 1
    /\ body[1].k = "write" /\ Len(body[1].bytes) = 1
    /\ LET opcode == body[1].bytes[1]
           data == Tail(body)
       IN CASE opcode \in {FLUSH_TX, FLUSH_RX} -> data = <<>>
            [] opcode = W_TX_PAYLOAD -> Len(data) = 1 /\ data[1].k = "write"
            [] opcode = R_RX_PAYLOAD -> Len(data) = 1 /\ data[1].k = "transfer"
            [] opcode = R_RX_PL_WID ->
                   Len(data) = 1 /\ data[1].k = "transfer" /\ data[1].n = 1
            [] opcode \in {W_REGISTER + RX_ADDR_P0, W_REGISTER + RX_ADDR_P1,
                           W_REGISTER + TX_ADDR} ->
                   Len(data) = 1 /\ data[1].k = "write" /\ data[1].bytes = entry.data
            [] opcode >= W_REGISTER /\ opcode <= W_REGISTER + REGISTER_MASK ->
                   Len(data) = 1 /\ data[1].k = "write" /\ data[1].n = 1
            [] opcode <= REGISTER_MASK ->
                   Len(data) = 1 /\ data[1].k = "transfer" /\ data[1].n = 1
            [] OTHER -> FALSE

C2_OneInstructionPerFrame ==
    (~running /\ result.tag = "Ok" /\ fails = 0) =>
        /\ csn = "high"
        /\ \A i \in 1..Len(log) :
              /\ log[i].k = "csn" => log[i].lvl = (IF CsnBefore(i) = "low" THEN "high" ELSE "low")
              /\ (log[i].k = "csn" /\ log[i].lvl = "low") => WellFormedFrame(FrameBody(i))

\* C2: the three parts together.
C2_Framing == C2_BusWhileLow /\ C2_NeverLowTwice /\ C2_OneInstructionPerFrame

(***************************************************************************)
(* C3: a config() in which every step succeeds issues exactly: write       *)
(* RF_CH = channel; FEATURE = EN_DPL and DYN_PD = DPL_P0 | DPL_P1 when      *)
(* payload_size = 0, else RX_PW_P0 = RX_PW_P1 = payload_size; CE low,      *)
(* CONFIG = base | PWR_UP | PRIM_RX, CE high, STATUS = TX_DS | MAX_RT;     *)
(* FLUSH_RX.                                                               *)
(***************************************************************************)
PowerUpRxSteps ==
    << EvCe("low") >>
    \o WriteFrame(CONFIG, <<MIRF_CONFIG + 2^PWR_UP + 2^PRIM_RX>>)
    \o << EvCe("high") >>
    \o WriteFrame(STATUS, <<2^TX_DS + 2^MAX_RT>>)

ConfigSteps ==
    WriteFrame(RF_CH, <<channel>>)
    \o (IF payload_size = 0
        THEN WriteFrame(FEATURE, <<2^EN_DPL>>) \o WriteFrame(DYN_PD, <<2^DPL_P0 + 2^DPL_P1>>)
        ELSE WriteFrame(RX_PW_P0, <<payload_size>>) \o WriteFrame(RX_PW_P1, <<payload_size>>))
    \o PowerUpRxSteps
    \o CommandFrame(FLUSH_RX)

\* C3: the steps of a config() without a failed step are exactly ConfigSteps.
C3_ConfigSequence ==
    (ReturnedOk("config") /\ AllOk(log)) => log = ConfigSteps

C3_Witness ==
    /\ ReturnedOk("config") /\ AllOk(log)
    /\ payload_size = 0 /\ channel = 125 /\ entry.tx

(***************************************************************************)
(* C4: config() returns an error whenever one of its steps failed, in both *)
(* payload modes.                                                          *)
(* In dynamic-payload mode the Results of the FEATURE and DYN_PD writes    *)
(* are discarded, so a failure there is not reported.                      *)
(***************************************************************************)
\* In fixed-payload mode every failure is reported.
C4_FixedModeFails ==
    (Returned("config") /\ payload_size # 0 /\ ~AllOk(log)) => result.tag = "Err"

\* C4: a config() with a failed step returns an error.
C4_ConfigFailsOnAnyFailure ==
    (Returned("config") /\ ~AllOk(log)) => result.tag = "Err"

(***************************************************************************)
(* C5: config() is idempotent: a config() that follows a config(), every   *)
(* step of both succeeding, issues the same steps as the first and leaves  *)
(* the driver and the chip registers as the first left them: flag false,   *)
(* chip-enable high, chip-select high, CONFIG holding the receive value.   *)
(***************************************************************************)
C5_ConfigIdempotent ==
    (ReturnedOk("config") /\ AllOk(log) /\ prev.config) =>
        /\ log = prev.log
        /\ <<csn, ce, tx_power_status, regs>> = <<prev.csn, prev.ce, prev.tx, prev.regs>>
        /\ <<channel, payload_size>> = <<prev.channel, prev.payload_size>>
        /\ tx_power_status = FALSE /\ ce = "high" /\ csn = "high"
        /\ regs[CONFIG] = <<MIRF_CONFIG + 2^PWR_UP + 2^PRIM_RX>>

\* the second of two config() calls, the first made with a transmission in flight
C5_Witness ==
    ReturnedOk("config") /\ AllOk(log) /\ prev.config /\ prev.tx0 /\ fails = 0

(***************************************************************************)
(* C6: when send() returns Ok, chip-enable is high and the flag is true;   *)
(* when power_up_rx has completed (in config() or in is_sending()),        *)
(* chip-enable is high and the flag is false.                              *)
(***************************************************************************)
\* power_up_rx has just completed: its steps are the latest of the log.
PowerUpRxJustDone ==
    /\ op \in {"config", "is_sending"}
    /\ Len(log) >= Len(PowerUpRxSteps)
    /\ SubSeq(log, Len(log) - Len(PowerUpRxSteps) + 1, Len(log)) = PowerUpRxSteps

\* C6: chip-enable and the flag after send() and after power_up_rx.
C6_LevelsAfterSendAndRx ==
    /\ ReturnedOk("send") => (ce = "high" /\ tx_power_status)
    /\ PowerUpRxJustDone => (ce = "high" /\ ~tx_power_status)
    /\ (ReturnedOk("config")
        \/ (ReturnedOk("is_sending") /\ entry.tx /\ ~result.b))
           => (ce = "high" /\ ~tx_power_status)

C6_WitnessSend == ReturnedOk("send") /\ entry.tx /\ entry.ce = "low"

C6_Witness ==
    /\ ReturnedOk("is_sending") /\ entry.tx /\ ~result.b /\ PowerUpRxJustDone
    /\ entry.ce = "low"

(***************************************************************************)
(* C7: a send(data) that returns Ok has issued, in this order: one STATUS  *)
(* read; only if the flag was set at the call, further STATUS reads until  *)
(* one shows TX_DS or MAX_RT; CE low; CONFIG = base | PWR_UP, PRIM_RX      *)
(* clear; FLUSH_TX; W_TX_PAYLOAD and the bytes of data; CE high.           *)
(* Chip-enable is low from the CE low step until the last step.            *)
(***************************************************************************)
SendSteps(data) ==
    << EvCe("low") >>
    \o WriteFrame(CONFIG, <<MIRF_CONFIG + 2^PWR_UP>>)
    \o CommandFrame(FLUSH_TX)
    \o << EvCsn("low"), EvWrite(<<W_TX_PAYLOAD>>), EvWrite(data), EvCsn("high") >>
    \o << EvCe("high") >>

\* The b-th group of four steps of the log, and the byte it read.
StatusRead(b) == SubSeq(log, 4 * b - 3, 4 * b)
StatusValue(b) == log[4 * b - 1].v

\* C7: the steps of a send() that returned Ok, in order.
C7_SendSequence ==
    ReturnedOk("send") =>
        LET n == Len(log) - Len(SendSteps(entry.data))
            reads == n \div 4
        IN /\ n >= 4 /\ n % 4 = 0
           /\ \A b \in 1..reads : StatusRead(b) = ReadFrame(STATUS, StatusValue(b))
           /\ IF entry.tx
              THEN /\ reads >= 2
                   /\ HasDoneBit(StatusValue(reads))
                   /\ \A b \in 2..(reads - 1) : ~HasDoneBit(StatusValue(b))
              ELSE reads = 1
           /\ SubSeq(log, n + 1, Len(log)) = SendSteps(entry.data)
           /\ (MIRF_CONFIG + 2^PWR_UP) % 2 = 0
           /\ \A i \in (n + 2)..Len(log) : CeBefore(i) = "low"

\* a send() that waited for the packet before: first poll not done, second done
C7_Witness ==
    /\ ReturnedOk("send") /\ entry.tx /\ entry.data = <<171, 205>>
    /\ Len(log) = 12 + Len(SendSteps(entry.data))
    /\ ~HasDoneBit(StatusValue(2)) /\ HasDoneBit(StatusValue(1))

(***************************************************************************)
(* C8: the poll loop of send() is the only place where an operation can    *)
(* fail to return.  An operation outside that loop returns (or panics)     *)
(* after a bounded number of hardware steps; send() leaves the loop only   *)
(* on a STATUS byte with TX_DS or MAX_RT set or on a failed step, so with  *)
(* a chip that never reports either bit it polls for ever.                 *)
(***************************************************************************)
\* send() was called with the flag set and has not left its while loop.
InPollLoop ==
    /\ running /\ op = "send" /\ tx_power_status
    /\ \E i \in 1..Len(todo) : todo[i].k = "whiletx"

\* The poll loop of send() is about to test a STATUS byte that has TX_DS or
\* MAX_RT set.
PollReadDone == InPollLoop /\ At("ifmask") /\ HasDoneBit(buffer)

\* C8: bounded steps and return outside the poll loop; the loop is left only
\* on a done bit or an error; a send() in the loop returns once a STATUS byte
\* shows TX_DS or MAX_RT, and at once when a step fails.
C8_Termination ==
    /\ [](~(op = "send" /\ entry.tx) => Len(log) <= Len(ConfigSteps))
    /\ []((ReturnedOk("send") /\ ~entry.tx) => Len(log) = 4 + Len(SendSteps(entry.data)))
    /\ (running /\ ~InPollLoop) ~> ~running
    /\ [][(InPollLoop /\ ~InPollLoop') =>
             (HasDoneBit(buffer) \/ (~running' /\ result'.tag = "Err"))]_vars
    /\ PollReadDone ~> (~running /\ op = "send" /\ result.tag \in {"Ok", "Err"})
    /\ [][(PollReadDone /\ fails' = fails) => (InPollLoop' /\ Head(todo').k = "flag")]_vars
    /\ [][(InPollLoop /\ Head(todo).k = "flag") => ~tx_power_status']_vars
    /\ [][(InPollLoop /\ fails' # fails) => (~running' /\ result'.tag = "Err")]_vars

\* a send() that polled twice: the first byte showed no done bit, the second did
C8_WitnessLeavesLoop ==
    /\ ReturnedOk("send") /\ entry.tx /\ fails = 0
    /\ Len(log) = 12 + Len(SendSteps(entry.data))
    /\ ~HasDoneBit(StatusValue(2)) /\ StatusValue(3) = 2^MAX_RT + 14

\* a step of the poll loop failed and send() returned the error
C8_WitnessLoopFails ==
    /\ Returned("send") /\ entry.tx /\ result.tag = "Err" /\ polls >= 1
    /\ Len(log) <= 4 * (MaxPolls + 1)

\* the loop has gone round more often than the log keeps, and still polls
C8_Witness ==
    /\ InPollLoop /\ polls = MaxPolls /\ Len(log) = 4 * (MaxPolls + 1)
    /\ Head(todo).k = "whiletx" /\ ~HasDoneBit(buffer)

\* Refuted under FairSpec by a chip that never reports TX_DS or MAX_RT.
C8_SendAlwaysReturns == running ~> ~running

(***************************************************************************)
(* C9: is_sending() called with the flag false returns false, issues no    *)
(* hardware step and changes neither line nor the flag.                    *)
(***************************************************************************)
C9_IsSendingIdle ==
    (op = "is_sending" /\ ~entry.tx) =>
        /\ log = <<>>
        /\ csn = entry.csn /\ ce = entry.ce /\ ~tx_power_status
        /\ ~running => result = OkBool(FALSE)

C9_Witness == ReturnedOk("is_sending") /\ ~entry.tx /\ entry.ce = "high"

(***************************************************************************)
(* C10: is_sending() called with the flag true, every step succeeding,     *)
(* reads STATUS once; if the byte has TX_DS or MAX_RT set it performs      *)
(* power_up_rx, leaves the flag false and returns false; otherwise it      *)
(* returns true, leaves the flag true and issues no further step.  The     *)
(* flag goes from true to false exactly in the first case.                 *)
(***************************************************************************)
C10_IsSendingPoll ==
    (Returned("is_sending") /\ entry.tx /\ AllOk(log)) =>
        /\ Len(log) >= 4
        /\ StatusRead(1) = ReadFrame(STATUS, StatusValue(1))
        /\ IF HasDoneBit(StatusValue(1))
           THEN /\ log = ReadFrame(STATUS, StatusValue(1)) \o PowerUpRxSteps
                /\ result = OkBool(FALSE)
                /\ ~tx_power_status
           ELSE /\ log = ReadFrame(STATUS, StatusValue(1))
                /\ result = OkBool(TRUE)
                /\ tx_power_status
                /\ ce = entry.ce

\* completion reported by MAX_RT alone
C10_Witness ==
    /\ Returned("is_sending") /\ entry.tx /\ AllOk(log)
    /\ StatusValue(1) = 2^MAX_RT + 14 /\ ~tx_power_status

C10_WitnessInFlight ==
    /\ Returned("is_sending") /\ entry.tx /\ AllOk(log)
    /\ ~HasDoneBit(StatusValue(1)) /\ result.b

(***************************************************************************)
(* C11: a data_ready() that returns Ok returns true exactly when the       *)
(* STATUS byte it read has RX_DR set or the FIFO_STATUS byte it read has   *)
(* RX_EMPTY clear (FIFO_STATUS is read only when RX_DR is clear); it       *)
(* returns false only with RX_DR clear and RX_EMPTY set.  data_ready()     *)
(* changes neither the flag nor chip-enable.                               *)
(***************************************************************************)
Bit(v, k) == (v \div 2^k) % 2 = 1

C11_DataReady ==
    /\ op = "data_ready" =>
          /\ tx_power_status = entry.tx /\ ce = entry.ce
          /\ \A i \in 1..Len(log) : log[i].k # "ce"
    /\ ReturnedOk("data_ready") =>
          /\ Len(log) >= 4
          /\ IF Bit(StatusValue(1), RX_DR)
             THEN /\ log = ReadFrame(STATUS, StatusValue(1))
                  /\ result = OkBool(TRUE)
             ELSE /\ Len(log) = 8
                  /\ log = ReadFrame(STATUS, StatusValue(1))
                           \o ReadFrame(FIFO_STATUS, StatusValue(2))
                  /\ result = OkBool(~Bit(StatusValue(2), RX_EMPTY))

\* RX_DR clear and the FIFO not empty, with a transmission in flight
C11_Witness ==
    /\ ReturnedOk("data_ready") /\ Len(log) = 8
    /\ ~Bit(StatusValue(1), RX_DR) /\ ~Bit(StatusValue(2), RX_EMPTY)
    /\ result.b /\ entry.tx /\ entry.ce = "high"

C11_WitnessFalse ==
    /\ ReturnedOk("data_ready") /\ Len(log) = 8
    /\ ~Bit(StatusValue(1), RX_DR) /\ Bit(StatusValue(2), RX_EMPTY) /\ ~result.b

(***************************************************************************)
(* C12: a get_data() that returns Ok has, in fixed-payload mode, issued no *)
(* R_RX_PL_WID and transferred exactly payload_size bytes after            *)
(* R_RX_PAYLOAD; in dynamic-payload mode it has first issued R_RX_PL_WID   *)
(* in a chip-select frame of its own, read the length n, and then          *)
(* transferred exactly n bytes after R_RX_PAYLOAD.  In both modes STATUS = *)
(* RX_DR is written after the payload transfer, and the number of bytes    *)
(* transferred is returned.                                                *)
(***************************************************************************)
PayloadSteps(n) ==
    << EvCsn("low"), EvWrite(<<R_RX_PAYLOAD>>), EvReadN(n), EvCsn("high") >>
    \o WriteFrame(STATUS, <<2^RX_DR>>)

C12_GetDataSequence ==
    ReturnedOk("get_data") =>
        IF payload_size = 0
        THEN /\ Len(log) = 4 + Len(PayloadSteps(0))
             /\ log = << EvCsn("low"), EvWrite(<<R_RX_PL_WID>>), EvRead1(log[3].v),
                         EvCsn("high") >>
                      \o PayloadSteps(log[3].v)
             /\ result = OkByte(log[3].v)
        ELSE /\ log = PayloadSteps(payload_size)
             /\ \A i \in 1..Len(log) : log[i].bytes # <<R_RX_PL_WID>>
             /\ result = OkByte(payload_size)

\* a two-byte packet read in dynamic-payload mode into a 32-byte buffer
C12_Witness ==
    /\ ReturnedOk("get_data") /\ payload_size = 0
    /\ result.n = 2 /\ entry.buflen = 32

C12_WitnessFixed == ReturnedOk("get_data") /\ payload_size = 32 /\ result.n = 32

(***************************************************************************)
(* C13: get_data() fails whenever the buffer is shorter than the payload   *)
(* length it determined (payload_size, or the byte read after R_RX_PL_WID, *)
(* any value up to 255): it returns no byte count, transfers no payload    *)
(* byte and does not write the RX_DR acknowledgement.  The failure is the  *)
(* bounds violation of buf[0..payload_length].                             *)
(***************************************************************************)
C13_ShortBufferFails ==
    (op = "get_data" /\ payload_length > entry.buflen) =>
        /\ result.tag # "Ok"
        /\ ~running => result.tag \in {"Panic", "Err"}
        /\ \A i \in 1..Len(log) :
              /\ ~(log[i].k = "transfer" /\ log[i].bytes = <<>>)
              /\ log[i].bytes # <<W_REGISTER + STATUS>>

\* the chip reported a width of 255 for a 32-byte buffer
C13_Witness ==
    /\ op = "get_data" /\ ~running /\ result = Panicked
    /\ payload_size = 0 /\ payload_length = 255 /\ entry.buflen = 32

C13_WitnessFixed ==
    /\ op = "get_data" /\ ~running /\ result = Panicked
    /\ payload_size = 32 /\ entry.buflen = 2

(***************************************************************************)
(* C14: a set_raddr(addr) that returns Ok has issued exactly CE low, one   *)
(* write of the bytes of addr to RX_ADDR_P1, CE high, so chip-enable is    *)
(* high at its return whatever it was at the call.  set_taddr(addr) never  *)
(* drives chip-enable, whether it succeeds or fails, and when it returns   *)
(* Ok it has written addr to RX_ADDR_P0 and then to TX_ADDR, so the chip   *)
(* holds addr in TX_ADDR.                                                  *)
(***************************************************************************)
\* The bytes the chip last received for register r in this operation: the
\* data write that followed the opcode W_REGISTER | r.
LastWritten(r) ==
    LET ws == {i \in 2..Len(log) : /\ log[i].k = "write" /\ log[i].st = "ok"
                                   /\ log[i-1] = EvWrite(<<W_REGISTER + r>>)}
    IN IF ws = {} THEN <<>>
       ELSE log[CHOOSE i \in ws : \A j \in ws : j <= i].bytes

C14_AddressFrames ==
    /\ ReturnedOk("set_raddr") =>
          /\ log = << EvCe("low") >> \o WriteFrame(RX_ADDR_P1, entry.data)
                   \o << EvCe("high") >>
          /\ ce = "high"
    /\ op = "set_taddr" =>
          /\ ce = entry.ce
          /\ \A i \in 1..Len(log) : log[i].k # "ce"
    /\ ReturnedOk("set_taddr") =>
          /\ log = WriteFrame(RX_ADDR_P0, entry.data) \o WriteFrame(TX_ADDR, entry.data)
          /\ LastWritten(RX_ADDR_P0) = entry.data
          /\ LastWritten(TX_ADDR) = entry.data

\* set_raddr called with chip-enable low (after power_down) and a 5-byte address
C14_Witness ==
    /\ ReturnedOk("set_raddr") /\ entry.ce = "low" /\ Len(entry.data) = 5

C14_WitnessTaddr ==
    /\ ReturnedOk("set_taddr") /\ entry.ce = "high" /\ Len(entry.data) = 3

C14_WitnessTaddrFails ==
    /\ Returned("set_taddr") /\ result.tag = "Err" /\ entry.ce = "high"

(***************************************************************************)
(* C16: in every operation a failure to drive chip-select or chip-enable   *)
(* is returned as Gpio and a failed bus write or transfer is returned as   *)
(* Spi carrying the transport's error unchanged; the failed step is not    *)
(* retried (it is the last step of the operation); no operation returns    *)
(* LateCollision.                                                          *)
(* In dynamic-payload mode config() discards the Results of its FEATURE    *)
(* and DYN_PD writes (C4), so a failed step there is not returned and      *)
(* further steps follow it.                                                *)
(***************************************************************************)
\* The error a failed step is returned as.
ErrorOf(ev) == IF ev.k \in {"csn", "ce"} THEN ErrGpio ELSE ErrSpi(ev.st)

\* What the claim says of one returned operation.
TaxonomyHolds ==
    /\ \A i \in 1..Len(log) :
          log[i].st # "ok" => (i = Len(log) /\ result = ErrorOf(log[i]))
    /\ result.tag = "Err" =>
          /\ log # <<>> /\ log[Len(log)].st # "ok"
          /\ result.err \in {"Gpio", "Spi"}

\* Outside the two discarded calls every failure is returned as claimed.
C16_TaxonomyWherePropagated ==
    (~running /\ result.tag \in {"Ok", "Err"} /\ ~(op = "config" /\ payload_size = 0))
        => TaxonomyHolds

C16_WitnessSpi ==
    /\ Returned("get_data") /\ result = ErrSpi("e2")
    /\ log[Len(log)].k = "transfer" /\ log[Len(log)].st = "e2"

C16_WitnessGpio ==
    /\ Returned("set_raddr") /\ result = ErrGpio
    /\ log[Len(log)] = Ev("ce", "high", <<>>, 0, 0, "fail")

\* C16: every failed step of a returned operation is returned as its error.
C16_ErrorTaxonomy ==
    (~running /\ result.tag \in {"Ok", "Err"}) => TaxonomyHolds

(***************************************************************************)
(* C17: chip-enable is low whenever the driver writes a configuration      *)
(* register: CONFIG (power_down, power_up_rx, power_up_tx), RX_ADDR_P1     *)
(* (set_raddr), and RF_CH, FEATURE, DYN_PD, RX_PW_P0, RX_PW_P1 in          *)
(* config(), also in a config() that follows a config() which left the     *)
(* radio receiving.                                                        *)
(* config() writes RF_CH and the payload registers before power_up_rx      *)
(* lowers chip-enable, so it writes them with chip-enable high whenever it *)
(* is called with chip-enable high.                                        *)
(***************************************************************************)
\* Step i of the log hands the chip the data of a write to register r.
WritesRegister(i, r) ==
    /\ i >= 2 /\ log[i].k = "write" /\ log[i].st = "ok"
    /\ log[i-1] = EvWrite(<<W_REGISTER + r>>)

\* The registers power_down, power_up_rx, power_up_tx and set_raddr write
\* are written with chip-enable low.
C17_CeLowForConfigAndAddress ==
    \A i \in 1..Len(log) : \A r \in {CONFIG, RX_ADDR_P1} :
        WritesRegister(i, r) => CeBefore(i) = "low"

C17_WitnessPowerUpTx ==
    /\ ReturnedOk("send") /\ entry.ce = "high"
    /\ WritesRegister(Len(log) - 9, CONFIG)

\* C17: every write of a configuration register happens with chip-enable low.
C17_CeLowWhileConfiguring ==
    \A i \in 1..Len(log) :
        \A r \in {CONFIG, RX_ADDR_P1, RF_CH, FEATURE, DYN_PD, RX_PW_P0, RX_PW_P1} :
            WritesRegister(i, r) => CeBefore(i) = "low"

(***************************************************************************)
(* C19: whenever an operation has returned, the flag is true exactly when  *)
(* the value last written to CONFIG is the transmit value (base | PWR_UP,  *)
(* PRIM_RX clear); the flag is false whenever the last CONFIG write was    *)
(* the receive value or the powered-down base value.                       *)
(* power_down() writes the base value and leaves the flag alone, and       *)
(* power_up_tx / power_up_rx assign the flag before the CONFIG write that  *)
(* may fail.                                                               *)
(***************************************************************************)
ConfigTx == << MIRF_CONFIG + 2^PWR_UP >>
ConfigRx == << MIRF_CONFIG + 2^PWR_UP + 2^PRIM_RX >>
ConfigDown == << MIRF_CONFIG >>

\* In runs without a failed step, and unless CONFIG holds the base value
\* power_down wrote, the flag mirrors CONFIG.
C19_MirrorsUnlessPoweredDown ==
    (~running /\ result.tag \in {"Ok", "Err"} /\ fails = 0 /\ regs[CONFIG] # ConfigDown)
        => (tx_power_status <=> regs[CONFIG] = ConfigTx)

C19_WitnessMirror ==
    /\ ReturnedOk("is_sending") /\ fails = 0 /\ entry.tx /\ ~tx_power_status
    /\ regs[CONFIG] = ConfigRx

\* C19: at every return the flag is true iff CONFIG last received the transmit value.
C19_FlagMirrorsConfig ==
    (~running /\ result.tag \in {"Ok", "Err"})
        => (tx_power_status <=> regs[CONFIG] = ConfigTx)

\* Without a failed step: power_down() after send() leaves the flag true over
\* the base value.
C19_FlagFalseWhenPoweredDown ==
    (~running /\ result.tag \in {"Ok", "Err"} /\ fails = 0 /\ regs[CONFIG] = ConfigDown)
        => ~tx_power_status

(***************************************************************************)
(* C15: whenever an operation has returned, with Ok or with an error, the  *)
(* flag is true exactly when send() has handed a payload to the chip and   *)
(* triggered its transmission and the driver has read no STATUS byte with  *)
(* TX_DS or MAX_RT since.                                                  *)
(* power_up_tx() sets the flag before the payload is loaded and chip-      *)
(* enable raised, so a send() that fails after it returns with the flag    *)
(* set and nothing on the air; power_up_rx() in config() clears the flag   *)
(* of a packet whose completion was never read.                            *)
(***************************************************************************)
\* What does hold: send() Ok leaves a packet in flight with the flag set, and
\* an is_sending() that read a done bit leaves neither.
C15_AfterSendAndCompletion ==
    /\ ReturnedOk("send") => (tx_power_status /\ in_flight)
    /\ (ReturnedOk("is_sending") /\ entry.tx /\ ~result.b)
          => (~tx_power_status /\ ~in_flight)

C15_WitnessCompletion ==
    ReturnedOk("is_sending") /\ entry.tx /\ ~result.b /\ ~in_flight /\ fails = 0

\* C15: at every return the flag is true iff a triggered packet is unresolved.
C15_FlagMeansInFlight ==
    (~running /\ result.tag \in {"Ok", "Err"}) => (tx_power_status <=> in_flight)

\* Without a failed step: config() after send() clears the flag of the packet
\* in flight, get_status() reads the completion and leaves the flag set.
C15_FlagMeansInFlightNoFailure ==
    (~running /\ result.tag \in {"Ok", "Err"} /\ fails = 0)
        => (tx_power_status <=> in_flight)

(***************************************************************************)
(* C20: between two consecutive transmissions started by send() calls that *)
(* returned Ok the driver writes TX_DS | MAX_RT back to STATUS, so with a  *)
(* chip that keeps these bits set until they are written back no packet   *)
(* is in flight while a completion bit of an earlier packet is still set,  *)
(* and is_sending() after send() cannot return false on a stale bit.       *)
(* The poll loop of send() clears the flag on a done bit and goes on to    *)
(* transmit without writing STATUS; only power_up_rx() writes it back.     *)
(***************************************************************************)
\* Where the driver does write the bits back: power_up_rx in is_sending()
\* and in config().
C20_ClearedByPowerUpRx ==
    /\ (ReturnedOk("is_sending") /\ entry.tx /\ ~result.b) => ~chip_done
    /\ ReturnedOk("config") => ~chip_done

C20_WitnessCleared ==
    /\ ReturnedOk("is_sending") /\ entry.tx /\ ~result.b /\ ~chip_done
    /\ HasDoneBit(StatusValue(1)) /\ entry.ce = "high"

\* C20: no packet is in flight while the completion bit of an earlier one is set.
C20_CompletionBitsFresh == ~(in_flight /\ chip_done)

\* The same in runs without a failed step, at the return of send().
C20_FreshAfterSendNoFailure ==
    (ReturnedOk("send") /\ fails = 0) => ~chip_done

(***************************************************************************)
(* C18: after a send() that returned Ok, if the caller keeps calling       *)
(* is_sending(), no step fails and the chip eventually reports TX_DS or    *)
(* MAX_RT, then eventually is_sending() returns false, and the driver is   *)
(* then in receive mode: flag false, chip-enable high, CONFIG last written *)
(* with PRIM_RX set, TX_DS and MAX_RT written back to STATUS.  Every       *)
(* is_sending() before that returns true.                                  *)
(***************************************************************************)
\* The chip answers a STATUS read of is_sending() with TX_DS or MAX_RT.
ChipReportsDone ==
    StepTransfer1 /\ op = "is_sending" /\ BitAnd(buffer', TxDoneMask) # 0

\* The running operation keeps executing, the caller keeps calling
\* is_sending(), and the chip reports completion to one of the reads.
PollSpec ==
    Spec /\ WF_vars(Steps) /\ SF_vars(CallIsSending) /\ SF_vars(ChipReportsDone)

\* is_sending() has returned false after a STATUS read showing completion and
\* the driver is in receive mode.
BackInReceiveMode ==
    /\ ReturnedOk("is_sending") /\ result = OkBool(FALSE)
    /\ ~tx_power_status /\ ce = "high" /\ csn = "high"
    /\ regs[CONFIG] = ConfigRx /\ Bit(ConfigRx[1], PRIM_RX)
    /\ Len(log) >= 4
    /\ log = ReadFrame(STATUS, StatusValue(1)) \o PowerUpRxSteps
    /\ HasDoneBit(StatusValue(1))
    /\ ~chip_done /\ ~in_flight

\* The caller did something else than polling, or a step failed.
NotPolling ==
    \/ fails > 0
    \/ op \notin {"send", "is_sending"}
    \/ op = "send" /\ running

C18_Completion ==
    /\ (ReturnedOk("send") /\ fails = 0) ~> (BackInReceiveMode \/ NotPolling)
    /\ []((ReturnedOk("is_sending") /\ entry.tx /\ fails = 0) =>
             IF HasDoneBit(StatusValue(1))
             THEN BackInReceiveMode
             ELSE result = OkBool(TRUE) /\ tx_power_status /\ ce = entry.ce)

\* is_sending() returned false on MAX_RT, called with chip-enable high as
\* send() leaves it
C18_Witness ==
    /\ BackInReceiveMode /\ fails = 0 /\ entry.tx /\ entry.ce = "high"
    /\ StatusValue(1) = 2^MAX_RT + 14

\* The liveness part alone: refuted under FairSpec, where the caller need not
\* poll and the chip need not report completion.
C18_CompletionUnforced ==
    (ReturnedOk("send") /\ fails = 0) ~> (BackInReceiveMode \/ NotPolling)

====
